---------------------------- MODULE Spec2Model ----------------------------
(***************************************************************************)
(* Model of the English-to-Amharic translator: the text chunker            *)
(* (app/utils.py), the PDF pipeline (app/pdf_handler.py) and the upload    *)
(* handling of the web front end (app/main.py).                            *)
(*                                                                         *)
(* A text is a sequence of one-character strings.  Three specifications    *)
(* share the module: SpecSplit runs split_text on bounded texts, Spec runs *)
(* one translate_pdf call on a bounded document, SpecConc interleaves two  *)
(* handle_pdf_translation sessions on the shared uploads directory.        *)
(***************************************************************************)
EXTENDS Integers, Sequences, FiniteSets, TLC

VARIABLES
    \* ---- split_text (app/utils.py)
    text, max_length, words, chunks, current_chunk, word_idx, split_pc,
    \* ---- translate_pdf and what it calls (app/pdf_handler.py)
    input_pages,        \* the pages of the PDF at pdf_path, as the reader yields them
    has_callback,       \* whether progress_callback was given
    pc,                 \* control position inside translate_pdf
    pages_content,      \* what extract_text_with_positions returned
    translations,       \* the dict built by the mapping loop
    total_items, items_processed,
    page_i, run_i,      \* the running page / run of the loop in progress
    exc,                \* the text of the exception being handled
    result,             \* what the call returned
    sorted_content, last_y,     \* create_pdf_with_layout, per page
    pending, out_pages,         \* the canvas: operations of the open page, closed pages
    pdf_content,        \* what create_pdf_with_layout returned
    output_file,        \* the file at output_path
    calls,              \* texts translator.translate was called with, in order
    progress,           \* (fraction, message) pairs passed to progress_callback
    extract_calls,      \* how often extract_text_with_positions was entered
    render_calls,       \* how often create_pdf_with_layout was entered
    failed_pages,       \* the pages whose except clause ran while rendering
    faults,             \* the calls that raised outside the renderer's run and page try blocks
    \* ---- two sessions of handle_pdf_translation (app/main.py)
    files,              \* the files of the uploads directory, by name
    sess                \* per session: position, upload name, locals

splitVars == <<text, max_length, words, chunks, current_chunk, word_idx, split_pc>>

pdfVars == <<input_pages, has_callback, pc, pages_content, translations,
             total_items, items_processed, page_i, run_i, exc, result,
             sorted_content, last_y, pending, out_pages, pdf_content,
             output_file, calls, progress, extract_calls, render_calls,
             failed_pages, faults>>

concVars == <<files, sess>>

vars == <<splitVars, pdfVars, concVars>>

-----------------------------------------------------------------------------
(* Bounds *)

\* longest text handed to split_text / clean_text
MaxTextLen == 6
\* largest max_length handed to split_text
MaxChunkLimit == 3
\* most pages of an input PDF
MaxPages == 2

-----------------------------------------------------------------------------
(* Strings *)

Chars == {"a", "b", " "}

IsSpace(c) == c = " "

Texts == UNION {[1..n -> Chars] : n \in 0..MaxTextLen}

\* str.split(): the maximal runs of non-whitespace characters, in order
RECURSIVE SplitFrom(_, _, _)
SplitFrom(s, i, cur) ==
    IF i > Len(s)
    THEN IF cur = <<>> THEN <<>> ELSE <<cur>>
    ELSE IF IsSpace(s[i])
         THEN IF cur = <<>>
              THEN SplitFrom(s, i + 1, <<>>)
              ELSE <<cur>> \o SplitFrom(s, i + 1, <<>>)
         ELSE SplitFrom(s, i + 1, Append(cur, s[i]))

StrSplit(s) == SplitFrom(s, 1, <<>>)

\* " ".join(ws)
RECURSIVE StrJoin(_)
StrJoin(ws) ==
    IF ws = <<>> THEN <<>>
    ELSE IF Len(ws) = 1 THEN ws[1]
    ELSE ws[1] \o <<" ">> \o StrJoin(Tail(ws))

\* list.pop(): the list without its last element
Pop(l) == SubSeq(l, 1, Len(l) - 1)

clean_text(t) == StrJoin(StrSplit(t))

-----------------------------------------------------------------------------
(* split_text, one loop iteration per step *)

SplitInit ==
    /\ text \in Texts
    /\ max_length \in 0..MaxChunkLimit
    /\ words = StrSplit(text)
    /\ chunks = <<>>
    /\ current_chunk = <<>>
    /\ word_idx = 1
    /\ split_pc = "loop"

\* (mutation of SealedChunk: the overflowing word is left in the sealed chunk)
SealedChunkNoPop(appended) == appended

\* the chunk sealed when appending `word` overflows: the chunk without the word,
\* unless the word is all there is
SealedChunk(appended) ==
    IF Len(appended) > 1 THEN Pop(appended) ELSE appended

\* (mutation of RestartChunk: the overflowing word is dropped)
RestartChunkEmpty(word) == <<>>

\* the chunk that is open after a seal: the overflowing word alone
RestartChunk(word) == <<word>>

SplitWord ==
    /\ split_pc = "loop"
    /\ word_idx <= Len(words)
    /\ LET word == words[word_idx]
           appended == Append(current_chunk, word)
       IN IF Len(StrJoin(appended)) > max_length
          THEN /\ chunks' = Append(chunks, StrJoin(SealedChunk(appended)))
               /\ current_chunk' = RestartChunk(word)
          ELSE /\ current_chunk' = appended
               /\ UNCHANGED chunks
    /\ word_idx' = word_idx + 1
    /\ UNCHANGED <<text, max_length, words, split_pc>>
    /\ UNCHANGED <<pdfVars, concVars>>

SplitReturn ==
    /\ split_pc = "loop"
    /\ word_idx > Len(words)
    /\ chunks' = IF current_chunk # <<>>
                 THEN Append(chunks, StrJoin(current_chunk))
                 ELSE chunks
    /\ split_pc' = "done"
    /\ UNCHANGED <<text, max_length, words, current_chunk, word_idx>>
    /\ UNCHANGED <<pdfVars, concVars>>

-----------------------------------------------------------------------------
(* The input PDF and extract_text_with_positions *)

\* Lengths are counted in units of 1/1270 point, so that a point (Pt), a
\* millimetre (Mm = 72/25.4 points, reportlab.lib.units.mm) and the 1.2 font
\* scale are all whole numbers.
Pt == 1270
Mm == 3600

\* what a content stream shows: text at (x, y) in a font size (0: none given)
RawRun(t, x, y, fontSize) ==
    [text |-> t, x |-> x * Pt, y |-> y * Pt, fontSize |-> fontSize]

\* The pages an input PDF is made of: a page that shows no text but a
\* whitespace-only run, pages with one run, a rotated page whose runs the
\* stream shows bottom-up, and a page with the same text on two lines 2 points
\* apart.
RawPages ==
    { [rotation |-> 0,  runs |-> <<RawRun(<<" ">>, 100, 760, 12)>>],
      [rotation |-> 0,  runs |-> <<RawRun(<<"a", " ">>, 100, 750, 0)>>],
      [rotation |-> 0,  runs |-> <<RawRun(<<"b">>, 100, 700, 10)>>],
      [rotation |-> 90, runs |-> <<RawRun(<<"b">>, 100, 700, 10),
                                   RawRun(<<" ", "a">>, 100, 750, 12)>>],
      [rotation |-> 0,  runs |-> <<RawRun(<<"a">>, 100, 750, 12),
                                   RawRun(<<"a">>, 300, 752, 12)>>] }

SeqsUpTo(S, n) == UNION {[1..k -> S] : k \in 0..n}

RawDocuments == SeqsUpTo(RawPages, MaxPages)

\* str.strip()
RECURSIVE StripLeft(_)
StripLeft(s) ==
    IF s # <<>> /\ IsSpace(Head(s)) THEN StripLeft(Tail(s)) ELSE s

RECURSIVE StripRight(_)
StripRight(s) ==
    IF s # <<>> /\ IsSpace(s[Len(s)]) THEN StripRight(Pop(s)) ELSE s

Strip(s) == StripRight(StripLeft(s))

\* key (-y, x): whether a sorts strictly before b
ExtractOrder(a, b) == a.y > b.y \/ (a.y = b.y /\ a.x < b.x)

\* key -y
RenderOrder(a, b) == a.y > b.y

Before(key, a, b) ==
    IF key = "(-y, x)" THEN ExtractOrder(a, b) ELSE RenderOrder(a, b)

\* sorted(l, key=...): a stable sort
RECURSIVE InsertSorted(_, _, _)
InsertSorted(l, e, key) ==
    IF l = <<>> THEN <<e>>
    ELSE IF Before(key, e, Head(l)) THEN <<e>> \o l
    ELSE <<Head(l)>> \o InsertSorted(Tail(l), e, key)

RECURSIVE Sorted(_, _)
Sorted(l, key) ==
    IF l = <<>> THEN <<>>
    ELSE InsertSorted(Sorted(Pop(l), key), l[Len(l)], key)

\* visitor_body: nothing for whitespace-only text, else the run with its text
\* stripped and a font size of 12 when the stream gives none
RECURSIVE VisitRuns(_, _)
VisitRuns(runs, rotation) ==
    IF runs = <<>> THEN <<>>
    ELSE LET r == Head(runs)
             rest == VisitRuns(Tail(runs), rotation)
         IN IF Strip(r.text) = <<>>
            THEN rest
            ELSE <<[text |-> Strip(r.text), x |-> r.x, y |-> r.y,
                    fontSize |-> IF r.fontSize # 0 THEN r.fontSize ELSE 12,
                    rotation |-> rotation]>> \o rest

\* (mutation of KeepPage: pages without runs are kept as empty pages)
KeepEveryPage(text_content) == TRUE

\* a page is appended to pages_content only if it yielded a run
KeepPage(text_content) == text_content # <<>>

\* the loop over reader.pages, from page number n on
RECURSIVE ExtractFrom(_, _)
ExtractFrom(doc, n) ==
    IF n > Len(doc) THEN <<>>
    ELSE LET text_content == VisitRuns(doc[n].runs, doc[n].rotation)
         IN (IF KeepPage(text_content)
             THEN <<[rotation |-> doc[n].rotation,
                     content |-> Sorted(text_content, "(-y, x)"),
                     page_number |-> n]>>
             ELSE <<>>) \o ExtractFrom(doc, n + 1)

\* extract_text_with_positions: the pages of a document the reader parses, []
\* for one it cannot parse
extract_text_with_positions(doc, parses) ==
    IF parses THEN ExtractFrom(doc, 1) ELSE <<>>

-----------------------------------------------------------------------------
(* translate_pdf: the collaborators *)

Frac(n, d) == [num |-> n, den |-> d]

\* the phrases translate_pdf's handler looks for in an exception's text
Phrases == {"No extractable text", "Translation failed", "Failed to create PDF"}

\* An exception text is modelled by the set of those phrases it contains: the
\* texts an exception of the translator, of file I/O or of the callback may carry
ExcTexts == {{}} \cup {{p} : p \in Phrases}

\* the message the handler reports for an exception text
ErrorMessage(error_msg) ==
    IF "No extractable text" \in error_msg THEN "Could not extract text from PDF"
    ELSE IF "Translation failed" \in error_msg THEN "Translation failed"
    ELSE IF "Failed to create PDF" \in error_msg THEN "Could not create translated PDF"
    ELSE "PDF translation error"

\* what translator.translate may return for a text: an Amharic rendering, the
\* text unchanged, the empty string, or a string drawString cannot draw
Amharic(t) == [i \in DOMAIN t |-> IF t[i] = "a" THEN "A" ELSE "B"]

Undrawable == <<"?">>

TranslateResults(t) == {Amharic(t), t, <<>>, Undrawable}

Drawable(s) == \A i \in DOMAIN s : s[i] # "?"

\* dict.get(key, default)
Get(d, key, default) == IF key \in DOMAIN d THEN d[key] ELSE default

\* the runs of all pages in loop order, each with its page's number
RECURSIVE AllRuns(_)
AllRuns(pages) ==
    IF pages = <<>> THEN <<>>
    ELSE [k \in DOMAIN Head(pages).content |->
             [text |-> Head(pages).content[k].text,
              page_number |-> Head(pages).page_number]]
         \o AllRuns(Tail(pages))

OutputPath == "uploads/translated_in.pdf"

Failure == ""

Escaped == "an exception left translate_pdf"

NotReturned == "the call has not returned"

\* a missing file, b"", the bytes of a PDF with the given pages
NoFile == <<"no file">>

EmptyBytes == <<>>

\* (mutation of PdfBytes: a canvas no page of which was closed gives no bytes)
PdfBytesOfClosedPages(pages) == IF pages = <<>> THEN <<>> ELSE <<"%PDF", pages>>

PdfBytes(pages) == <<"%PDF", pages>>

\* None, and a value that is not None
None == <<>>

Some(v) == <<v>>

PdfIdle ==
    /\ input_pages = <<>>
    /\ has_callback = FALSE
    /\ pc = "idle"
    /\ pages_content = <<>>
    /\ translations = <<>>
    /\ total_items = 0
    /\ items_processed = 0
    /\ page_i = 0
    /\ run_i = 0
    /\ exc = {}
    /\ result = NotReturned
    /\ sorted_content = <<>>
    /\ last_y = None
    /\ pending = <<>>
    /\ out_pages = <<>>
    /\ pdf_content = EmptyBytes
    /\ output_file = NoFile
    /\ calls = <<>>
    /\ progress = <<>>
    /\ extract_calls = 0
    /\ render_calls = 0
    /\ failed_pages = {}
    /\ faults = {}

PdfInit ==
    /\ input_pages \in RawDocuments
    /\ has_callback \in BOOLEAN
    /\ pc = "start"
    /\ pages_content = <<>>
    /\ translations = <<>>
    /\ total_items = 0
    /\ items_processed = 0
    /\ page_i = 0
    /\ run_i = 0
    /\ exc = {}
    /\ result = NotReturned
    /\ sorted_content = <<>>
    /\ last_y = None
    /\ pending = <<>>
    /\ out_pages = <<>>
    /\ pdf_content = EmptyBytes
    /\ output_file = NoFile
    /\ calls = <<>>
    /\ progress = <<>>
    /\ extract_calls = 0
    /\ render_calls = 0
    /\ failed_pages = {}
    /\ faults = {}

\* if progress_callback: progress_callback(fraction, message), inside the try
\* block: the callback returns and control goes on to `next`, or it raises
Notify(fraction, message, next) ==
    IF has_callback
    THEN /\ progress' = Append(progress, [fraction |-> fraction, message |-> message])
         /\ \/ pc' = next /\ exc' = exc /\ faults' = faults
            \/ \E e \in ExcTexts :
                 /\ pc' = "except"
                 /\ exc' = e
                 /\ faults' = faults \cup {"callback"}
    ELSE /\ progress' = progress
         /\ pc' = next
         /\ exc' = exc
         /\ faults' = faults

-----------------------------------------------------------------------------
(* translate_pdf: extraction and mapping *)

Begin ==
    /\ pc = "start"
    /\ Notify(Frac(1, 10), "Extracting text from PDF...", "extract")
    /\ UNCHANGED <<input_pages, has_callback, pages_content, translations,
                   total_items, items_processed, page_i, run_i, result,
                   sorted_content, last_y, pending, out_pages, pdf_content,
                   output_file, calls, render_calls>>
    /\ UNCHANGED <<extract_calls, failed_pages, splitVars, concVars>>

\* open(pdf_path) raises
OpenFails ==
    /\ pc = "extract"
    /\ \E e \in ExcTexts : exc' = e
    /\ pc' = "except"
    /\ faults' = faults \cup {"open"}
    /\ UNCHANGED <<input_pages, has_callback, pages_content, translations,
                   total_items, items_processed, page_i, run_i, result,
                   sorted_content, last_y, pending, out_pages, pdf_content,
                   output_file, calls, progress, render_calls>>
    /\ UNCHANGED <<extract_calls, failed_pages, splitVars, concVars>>

\* what makes the reader raise inside extract_text_with_positions: the file is
\* not a PDF PdfReader can parse ("parse"), or the mediabox or extract_text of
\* a page raises after the pages before it yielded runs ("page"), which are
\* lost with it
ReadFaults(doc) ==
    {"parse"} \cup (IF \E n \in 1..(Len(doc) - 1) :
                          ExtractFrom(SubSeq(doc, 1, n), 1) # <<>>
                    THEN {"page"} ELSE {})

\* the file opens; extraction, the empty check, the dict and the counters
Extract ==
    /\ pc = "extract"
    /\ \E parses \in BOOLEAN :
         LET pages == extract_text_with_positions(input_pages, parses)
         IN /\ pages_content' = pages
            /\ IF parses THEN UNCHANGED faults
               ELSE \E f \in ReadFaults(input_pages) : faults' = faults \cup {f}
            /\ IF pages = <<>>
               THEN /\ exc' = {"No extractable text"}
                    /\ pc' = "except"
                    /\ UNCHANGED total_items
               ELSE /\ total_items' = Len(AllRuns(pages))
                    /\ pc' = "notify_translating"
                    /\ UNCHANGED exc
    /\ translations' = <<>>
    /\ items_processed' = 0
    /\ UNCHANGED <<input_pages, has_callback, page_i, run_i, result,
                   sorted_content, last_y, pending, out_pages, pdf_content,
                   output_file, calls, progress, render_calls>>
    /\ extract_calls' = extract_calls + 1
    /\ UNCHANGED <<failed_pages, splitVars, concVars>>

NotifyTranslating ==
    /\ pc = "notify_translating"
    /\ Notify(Frac(2, 10), "Translating text...",
              IF AllRuns(pages_content) = <<>> THEN "notify_creating" ELSE "map")
    /\ UNCHANGED <<input_pages, has_callback, pages_content, translations,
                   total_items, items_processed, page_i, run_i, result,
                   sorted_content, last_y, pending, out_pages, pdf_content,
                   output_file, calls, render_calls>>
    /\ UNCHANGED <<extract_calls, failed_pages, splitVars, concVars>>

\* a call of translator.translate and how it ended
Returned(t, r) == [text |-> t, raised |-> FALSE, returned |-> r, error |-> {}]

Raised(t, e) == [text |-> t, raised |-> TRUE, returned |-> <<>>, error |-> e]

\* the run the mapping loop is at
CurrentRun == AllRuns(pages_content)[items_processed + 1]

\* (mutation of NeedsTranslation: the dict is not consulted)
NeedsTranslationAlways(t) == t # <<>>

\* (mutation of NeedsTranslation: nothing is translated once the dict has an entry)
NeedsTranslationOfFirst(t) == t # <<>> /\ translations = <<>>

\* if text and text not in translations
NeedsTranslation(t) == t # <<>> /\ t \notin DOMAIN translations

\* the body of the mapping loop up to items_processed += 1
MapRun ==
    /\ pc = "map"
    /\ LET t == CurrentRun.text
       IN IF NeedsTranslation(t)
          THEN /\ \/ \E r \in TranslateResults(t) :
                       /\ calls' = Append(calls, Returned(t, r))
                       /\ translations' =
                            [k \in DOMAIN translations \cup {t} |->
                                IF k = t THEN r ELSE translations[k]]
                       /\ items_processed' = items_processed + 1
                       /\ pc' = "map_progress"
                       /\ UNCHANGED <<exc, faults>>
                  \/ \E e \in ExcTexts :
                       /\ calls' = Append(calls, Raised(t, e))
                       /\ exc' = {"Translation failed"} \cup e
                       /\ pc' = "except"
                       /\ faults' = faults \cup {"translate"}
                       /\ UNCHANGED <<translations, items_processed>>
          ELSE /\ items_processed' = items_processed + 1
               /\ pc' = "map_progress"
               /\ UNCHANGED <<calls, translations, exc, faults>>
    /\ UNCHANGED <<input_pages, has_callback, pages_content, total_items,
                   page_i, run_i, result, sorted_content, last_y, pending,
                   out_pages, pdf_content, output_file, progress, render_calls>>
    /\ UNCHANGED <<extract_calls, failed_pages, splitVars, concVars>>

\* (mutation of MapFraction: the mapping loop is given the whole range to 1.0)
MapFractionOvershoot ==
    Frac(2 * total_items + 8 * items_processed, 10 * total_items)

\* progress = 0.2 + 0.6 * items_processed / total_items
MapFraction == Frac(2 * total_items + 6 * items_processed, 10 * total_items)

MapProgress ==
    /\ pc = "map_progress"
    /\ Notify(MapFraction, "Translating page ...",
              IF items_processed < Len(AllRuns(pages_content))
              THEN "map" ELSE "notify_creating")
    /\ UNCHANGED <<input_pages, has_callback, pages_content, translations,
                   total_items, items_processed, page_i, run_i, result,
                   sorted_content, last_y, pending, out_pages, pdf_content,
                   output_file, calls, render_calls>>
    /\ UNCHANGED <<extract_calls, failed_pages, splitVars, concVars>>

NotifyCreating ==
    /\ pc = "notify_creating"
    /\ Notify(Frac(8, 10), "Creating translated PDF...", "render")
    /\ UNCHANGED <<input_pages, has_callback, pages_content, translations,
                   total_items, items_processed, page_i, run_i, result,
                   sorted_content, last_y, pending, out_pages, pdf_content,
                   output_file, calls, render_calls>>
    /\ UNCHANGED <<extract_calls, failed_pages, splitVars, concVars>>

-----------------------------------------------------------------------------
(* create_pdf_with_layout, one canvas call sequence per step *)

Abs(n) == IF n < 0 THEN -n ELSE n

\* min_y_spacing = 2 * mm
MinYSpacing == 2 * Mm

\* adjusted_font_size = original_font_size * 1.2
AdjustedFontSize(fontSize) == (fontSize * 12 * Pt) \div 10

\* (mutation of PlacedY: every run is drawn at its stored y)
PlacedYStored(content, lastY) == content.y

\* the y a run is drawn at, given the y of the run drawn before it on the page
PlacedY(content, lastY) ==
    IF lastY # None /\ Abs(content.y - lastY[1]) < MinYSpacing
    THEN lastY[1] - AdjustedFontSize(content.fontSize) - MinYSpacing
    ELSE content.y

\* buffer, canvas and font: the canvas is created, or creating it raises and
\* the function returns b""
RenderBegin ==
    /\ pc = "render"
    /\ render_calls' = render_calls + 1
    /\ pending' = <<>>
    /\ out_pages' = <<>>
    /\ \/ /\ page_i' = 1
          /\ pc' = "page"
          /\ UNCHANGED <<pdf_content, faults>>
       \/ /\ pdf_content' = EmptyBytes
          /\ pc' = "rendered"
          /\ faults' = faults \cup {"canvas"}
          /\ UNCHANGED page_i
    /\ UNCHANGED <<input_pages, has_callback, pages_content, translations,
                   total_items, items_processed, run_i, exc, result,
                   sorted_content, last_y, output_file, calls, progress>>
    /\ failed_pages' = {}
    /\ UNCHANGED <<extract_calls, splitVars, concVars>>

\* the head of the page loop: page size, rotation, last_y, the sort
RenderPageSetup ==
    /\ pc = "page"
    /\ page_i <= Len(pages_content)
    /\ LET page == pages_content[page_i]
       IN /\ pending' = IF page.rotation # 0
                        THEN Append(pending, [op |-> "rotate", page |-> page_i,
                                              angle |-> page.rotation])
                        ELSE pending
          /\ sorted_content' = Sorted(page.content, "-y")
    /\ last_y' = None
    /\ run_i' = 1
    /\ pc' = "run"
    /\ UNCHANGED <<input_pages, has_callback, pages_content, translations,
                   total_items, items_processed, page_i, exc, result,
                   out_pages, pdf_content, output_file, calls, progress,
                   render_calls>>
    /\ UNCHANGED <<extract_calls, failed_pages, faults, splitVars, concVars>>

\* setPageSize or rotate raises: the page's except clause continues with the
\* next page
RenderPageSetupFails ==
    /\ pc = "page"
    /\ page_i <= Len(pages_content)
    /\ page_i' = page_i + 1
    /\ UNCHANGED <<input_pages, has_callback, pc, pages_content, translations,
                   total_items, items_processed, run_i, exc, result,
                   sorted_content, last_y, pending, out_pages, pdf_content,
                   output_file, calls, progress, render_calls>>
    /\ failed_pages' = failed_pages \cup {page_i}
    /\ UNCHANGED <<extract_calls, faults, splitVars, concVars>>

\* translations.get(text, text)
Lookup(t) == Get(translations, t, t)

\* the body of the run loop
RenderRun ==
    /\ pc = "run"
    /\ run_i <= Len(sorted_content)
    /\ LET content == sorted_content[run_i]
           translated_text == Lookup(content.text)
           y == PlacedY(content, last_y)
       IN IF content.text = <<>> \/ translated_text = <<>>
             \/ ~Drawable(translated_text)
          THEN UNCHANGED <<pending, last_y>>
          ELSE /\ pending' = Append(pending,
                      [op |-> "draw", page |-> page_i, text |-> content.text,
                       string |-> translated_text, x |-> content.x, y |-> y,
                       size |-> AdjustedFontSize(content.fontSize)])
               /\ last_y' = Some(y)
    /\ run_i' = run_i + 1
    /\ UNCHANGED <<input_pages, has_callback, pc, pages_content, translations,
                   total_items, items_processed, page_i, exc, result,
                   sorted_content, out_pages, pdf_content, output_file, calls,
                   progress, render_calls>>
    /\ UNCHANGED <<extract_calls, failed_pages, faults, splitVars, concVars>>

\* c.showPage() closes the page
RenderShowPage ==
    /\ pc = "run"
    /\ run_i > Len(sorted_content)
    /\ out_pages' = Append(out_pages, pending)
    /\ pending' = <<>>
    /\ page_i' = page_i + 1
    /\ pc' = "page"
    /\ UNCHANGED <<input_pages, has_callback, pages_content, translations,
                   total_items, items_processed, run_i, exc, result,
                   sorted_content, last_y, pdf_content, output_file, calls,
                   progress, render_calls>>
    /\ UNCHANGED <<extract_calls, failed_pages, faults, splitVars, concVars>>

\* c.showPage() raises: the page's except clause continues with the next page,
\* the operations of this one still on the canvas
RenderShowPageFails ==
    /\ pc = "run"
    /\ run_i > Len(sorted_content)
    /\ page_i' = page_i + 1
    /\ pc' = "page"
    /\ UNCHANGED <<input_pages, has_callback, pages_content, translations,
                   total_items, items_processed, run_i, exc, result,
                   sorted_content, last_y, pending, out_pages, pdf_content,
                   output_file, calls, progress, render_calls>>
    /\ failed_pages' = failed_pages \cup {page_i}
    /\ UNCHANGED <<extract_calls, faults, splitVars, concVars>>

\* c.save() after the last page: it closes a page that still has operations,
\* and the buffer's bytes are returned; or it raises and b"" is returned
RenderSave ==
    /\ pc = "page"
    /\ page_i > Len(pages_content)
    /\ \/ /\ out_pages' = IF pending # <<>> THEN Append(out_pages, pending)
                          ELSE out_pages
          /\ pending' = <<>>
          /\ pdf_content' = PdfBytes(out_pages')
          /\ UNCHANGED faults
       \/ /\ pdf_content' = EmptyBytes
          /\ faults' = faults \cup {"save"}
          /\ UNCHANGED <<out_pages, pending>>
    /\ pc' = "rendered"
    /\ UNCHANGED <<input_pages, has_callback, pages_content, translations,
                   total_items, items_processed, page_i, run_i, exc, result,
                   sorted_content, last_y, output_file, calls, progress,
                   render_calls>>
    /\ UNCHANGED <<extract_calls, failed_pages, splitVars, concVars>>

-----------------------------------------------------------------------------
(* translate_pdf: after rendering *)

\* if not pdf_content: raise ValueError("Failed to create PDF ...")
CheckRendered ==
    /\ pc = "rendered"
    /\ IF pdf_content = EmptyBytes
       THEN /\ exc' = {"Failed to create PDF"}
            /\ pc' = "except"
       ELSE /\ pc' = "notify_saving"
            /\ UNCHANGED exc
    /\ UNCHANGED <<input_pages, has_callback, pages_content, translations,
                   total_items, items_processed, page_i, run_i, result,
                   sorted_content, last_y, pending, out_pages, pdf_content,
                   output_file, calls, progress, render_calls>>
    /\ UNCHANGED <<extract_calls, failed_pages, faults, splitVars, concVars>>

NotifySaving ==
    /\ pc = "notify_saving"
    /\ Notify(Frac(9, 10), "Saving translated PDF...", "write")
    /\ UNCHANGED <<input_pages, has_callback, pages_content, translations,
                   total_items, items_processed, page_i, run_i, result,
                   sorted_content, last_y, pending, out_pages, pdf_content,
                   output_file, calls, render_calls>>
    /\ UNCHANGED <<extract_calls, failed_pages, splitVars, concVars>>

\* open(output_path, 'wb') and file.write(pdf_content)
WriteOutput ==
    /\ pc = "write"
    /\ output_file' = pdf_content
    /\ pc' = "notify_complete"
    /\ UNCHANGED <<input_pages, has_callback, pages_content, translations,
                   total_items, items_processed, page_i, run_i, exc, result,
                   sorted_content, last_y, pending, out_pages, pdf_content,
                   calls, progress, render_calls>>
    /\ UNCHANGED <<extract_calls, failed_pages, faults, splitVars, concVars>>

\* the open raises (no file), or the write raises (the file exists, truncated)
WriteOutputFails ==
    /\ pc = "write"
    /\ \E e \in ExcTexts : exc' = e
    /\ \E created \in BOOLEAN :
         output_file' = IF created THEN EmptyBytes ELSE output_file
    /\ pc' = "except"
    /\ faults' = faults \cup {"write"}
    /\ UNCHANGED <<input_pages, has_callback, pages_content, translations,
                   total_items, items_processed, page_i, run_i, result,
                   sorted_content, last_y, pending, out_pages, pdf_content,
                   calls, progress, render_calls>>
    /\ UNCHANGED <<extract_calls, failed_pages, splitVars, concVars>>

\* the last progress call and return output_path
NotifyComplete ==
    /\ pc = "notify_complete"
    /\ Notify(Frac(10, 10), "Translation complete!", "done")
    /\ result' = IF pc' = "done" THEN OutputPath ELSE result
    /\ UNCHANGED <<input_pages, has_callback, pages_content, translations,
                   total_items, items_processed, page_i, run_i,
                   sorted_content, last_y, pending, out_pages, pdf_content,
                   output_file, calls, render_calls>>
    /\ UNCHANGED <<extract_calls, failed_pages, splitVars, concVars>>

\* what the except clause returns
HandlerReturns == Failure

\* except Exception: the message, the callback call with -1, return ""; an
\* exception of that callback call is raised inside the handler and leaves
\* translate_pdf
HandleError ==
    /\ pc = "except"
    /\ IF has_callback
       THEN /\ progress' = Append(progress,
                    [fraction |-> Frac(-1, 1), message |-> ErrorMessage(exc)])
            /\ \/ result' = HandlerReturns /\ faults' = faults
               \/ result' = Escaped /\ faults' = faults \cup {"callback"}
       ELSE /\ result' = HandlerReturns
            /\ UNCHANGED <<progress, faults>>
    /\ pc' = "done"
    /\ UNCHANGED <<input_pages, has_callback, pages_content, translations,
                   total_items, items_processed, page_i, run_i, exc,
                   sorted_content, last_y, pending, out_pages, pdf_content,
                   output_file, calls, render_calls>>
    /\ UNCHANGED <<extract_calls, failed_pages, splitVars, concVars>>

-----------------------------------------------------------------------------
(* handle_pdf_translation: two sessions, each translating its own document, *)
(* on the one uploads directory                                             *)

Sessions == {1, 2}

\* A file name is the sequence of its parts; "translated_" + name
Translated(name) == <<"translated_">> \o name

\* the names a browser may give the uploaded file
UploadNames == {<<"a.pdf">>, <<"b.pdf">>, Translated(<<"a.pdf">>)}

FileNames == UploadNames \cup {Translated(n) : n \in UploadNames}

\* file contents: none, the document a session uploaded, the translated
\* rendering of a document
Absent == [kind |-> "absent", doc |-> 0]

Upload(s) == [kind |-> "upload", doc |-> s]

Rendering(c) == [kind |-> "translated", doc |-> c.doc]

\* temp_path = os.path.join("uploads", uploaded_file.name)
TempPath(s) == sess[s].name

\* output_path = os.path.join(self.upload_dir, f"translated_{basename(pdf_path)}"),
\* upload_dir being "uploads" in every session's PDFHandler()
OutPath(s) == Translated(sess[s].name)

ConcIdle ==
    /\ files = <<>>
    /\ sess = <<>>

ConcInit ==
    /\ files = [n \in FileNames |-> Absent]
    /\ \E names \in [Sessions -> UploadNames] :
         sess = [s \in Sessions |->
                    [pc |-> "save", name |-> names[s], extracted |-> Absent,
                     translated_pdf_path |-> <<>>, pdf_bytes |-> Absent]]

Goto(s, label) == [sess EXCEPT ![s].pc = label]

\* with open(temp_path, "wb") as f: f.write(uploaded_file.getvalue())
SaveUpload(s) ==
    /\ sess[s].pc = "save"
    /\ files' = [files EXCEPT ![TempPath(s)] = Upload(s)]
    /\ sess' = Goto(s, "open")
    /\ UNCHANGED <<splitVars, pdfVars>>

\* translate_pdf: open(pdf_path, 'rb') and the extraction; a missing file
\* makes translate_pdf return ""
OpenUpload(s) ==
    /\ sess[s].pc = "open"
    /\ IF files[TempPath(s)] = Absent
       THEN sess' = Goto(s, "check")
       ELSE sess' = [sess EXCEPT ![s].pc = "translate",
                                 ![s].extracted = files[TempPath(s)]]
    /\ UNCHANGED <<files, splitVars, pdfVars>>

\* translate_pdf: mapping and rendering done, open(output_path, 'wb') and the
\* write, return output_path
WriteTranslated(s) ==
    /\ sess[s].pc = "translate"
    /\ files' = [files EXCEPT ![OutPath(s)] = Rendering(sess[s].extracted)]
    /\ sess' = [sess EXCEPT ![s].pc = "check",
                            ![s].translated_pdf_path = OutPath(s)]
    /\ UNCHANGED <<splitVars, pdfVars>>

\* translate_pdf: a failure after extraction, return ""
TranslateFails(s) ==
    /\ sess[s].pc = "translate"
    /\ sess' = Goto(s, "check")
    /\ UNCHANGED <<files, splitVars, pdfVars>>

\* if translated_pdf_path and os.path.exists(translated_pdf_path): read it for
\* the download button; else report the failure
ReadTranslated(s) ==
    /\ sess[s].pc = "check"
    /\ LET path == sess[s].translated_pdf_path
       IN IF path # <<>> /\ files[path] # Absent
          THEN sess' = [sess EXCEPT ![s].pc = "remove_temp",
                                    ![s].pdf_bytes = files[path]]
          ELSE sess' = Goto(s, "finally")
    /\ UNCHANGED <<files, splitVars, pdfVars>>

\* os.remove(temp_path); FileNotFoundError goes to the except clause
RemoveTemp(s) ==
    /\ sess[s].pc = "remove_temp"
    /\ IF files[TempPath(s)] = Absent
       THEN /\ sess' = Goto(s, "finally")
            /\ UNCHANGED files
       ELSE /\ files' = [files EXCEPT ![TempPath(s)] = Absent]
            /\ sess' = Goto(s, "remove_translated")
    /\ UNCHANGED <<splitVars, pdfVars>>

\* os.remove(translated_pdf_path)
RemoveTranslated(s) ==
    /\ sess[s].pc = "remove_translated"
    /\ files' = [files EXCEPT ![sess[s].translated_pdf_path] = Absent]
    /\ sess' = Goto(s, "finally")
    /\ UNCHANGED <<splitVars, pdfVars>>

\* finally: if os.path.exists(temp_path): os.remove(temp_path)
Finally(s) ==
    /\ sess[s].pc = "finally"
    /\ files' = [files EXCEPT ![TempPath(s)] = Absent]
    /\ sess' = Goto(s, "done")
    /\ UNCHANGED <<splitVars, pdfVars>>

SplitNext == SplitWord \/ SplitReturn

InitSplit == SplitInit /\ PdfIdle /\ ConcIdle

\* one split_text call
SpecSplit == InitSplit /\ [][SplitNext]_vars

PdfNext ==
    \/ Begin \/ OpenFails \/ Extract \/ NotifyTranslating
    \/ MapRun \/ MapProgress \/ NotifyCreating
    \/ RenderBegin \/ RenderPageSetup \/ RenderPageSetupFails
    \/ RenderRun \/ RenderShowPage \/ RenderShowPageFails \/ RenderSave
    \/ CheckRendered \/ NotifySaving \/ WriteOutput \/ WriteOutputFails
    \/ NotifyComplete \/ HandleError

SplitIdle ==
    /\ text = <<>>
    /\ max_length = 0
    /\ words = <<>>
    /\ chunks = <<>>
    /\ current_chunk = <<>>
    /\ word_idx = 0
    /\ split_pc = "idle"

\* one translate_pdf call
Init == PdfInit /\ SplitIdle /\ ConcIdle

Spec == Init /\ [][PdfNext]_vars

ConcNext ==
    \E s \in Sessions :
        \/ SaveUpload(s) \/ OpenUpload(s) \/ WriteTranslated(s)
        \/ TranslateFails(s) \/ ReadTranslated(s) \/ RemoveTemp(s)
        \/ RemoveTranslated(s) \/ Finally(s)

InitConc == ConcInit /\ SplitIdle /\ PdfIdle

\* two concurrent sessions, their steps interleaved in any order
SpecConc == InitConc /\ [][ConcNext]_vars

-----------------------------------------------------------------------------
(* Properties of split_text *)

Range(f) == {f[i] : i \in DOMAIN f}

Count(f, v) == Cardinality({i \in DOMAIN f : f[i] = v})

NoLongWord == \A i \in DOMAIN words : Len(words[i]) <= max_length

\* C7: when max_length > 0 and no word of the text is longer than max_length,
\* every chunk split_text has emitted (so every chunk it returns) is at most
\* max_length long; and whatever the input, no emitted chunk is empty.
C7_ChunksBounded ==
    /\ (max_length > 0 /\ NoLongWord)
          => \A k \in DOMAIN chunks : Len(chunks[k]) <= max_length
    /\ \A k \in DOMAIN chunks : chunks[k] # <<>>

\* split_text has returned several chunks for a text without long words, one
\* of them two words filling max_length exactly
C7_Witness ==
    /\ split_pc = "done"
    /\ max_length > 0 /\ NoLongWord
    /\ Len(chunks) >= 2
    /\ \E k \in DOMAIN chunks :
          Len(chunks[k]) = max_length /\ Len(StrSplit(chunks[k])) = 2

\* C8: when max_length > 0 and no word of t is longer than max_length, the
\* returned chunks joined with single spaces are exactly clean_text(t).
C8_JoinIsClean ==
    (split_pc = "done" /\ max_length > 0 /\ NoLongWord)
        => StrJoin(chunks) = clean_text(text)

\* a text with irregular whitespace was split into at least two chunks
C8_Witness ==
    /\ split_pc = "done"
    /\ max_length > 0 /\ NoLongWord
    /\ Len(chunks) >= 2
    /\ clean_text(text) # text
    /\ \E i, j \in DOMAIN words : words[i] # words[j]

\* C9: every word longer than max_length (max_length > 0) comes out as exactly
\* one chunk per occurrence, that chunk being the word alone, and is part of
\* no other chunk.
C9_LongWordOnce ==
    (split_pc = "done" /\ max_length > 0)
        => \A w \in Range(words) :
              Len(w) > max_length
                  => /\ Count(chunks, w) = Count(words, w)
                     /\ \A k \in DOMAIN chunks :
                           chunks[k] # w => w \notin Range(StrSplit(chunks[k]))

-----------------------------------------------------------------------------
(* Properties of translate_pdf *)

RECURSIVE Concat(_)
Concat(seqs) == IF seqs = <<>> THEN <<>> ELSE Head(seqs) \o Concat(Tail(seqs))

\* every operation the canvas holds: those of the closed pages, then the open one
CanvasOps == Concat(out_pages) \o pending

\* the pages of the PDF written to output_path
WrittenPages == output_file[2]

Succeeded == result = OutputPath

Failed == result \in {Failure, Escaped}

\* the mapping loop ran to its end
MappingDone ==
    \/ pc \in {"notify_creating", "render", "page", "run", "rendered",
               "notify_saving", "write", "notify_complete"}
    \/ render_calls > 0

RunTexts == {r.text : r \in Range(AllRuns(pages_content))}

CallsWith(t) == {i \in DOMAIN calls : calls[i].text = t}

LastProgress == progress[Len(progress)]

\* C2: once a translate call has raised and translate_pdf has ended, that call
\* was the last one, the renderer was never entered, there is no output file,
\* the callback (if given) last received -1 with the translation-failure
\* message, and "" was returned.
C2_TranslationFailureAborts ==
    (pc = "done" /\ \E i \in DOMAIN calls : calls[i].raised)
        => /\ \A i \in DOMAIN calls : calls[i].raised => i = Len(calls)
           /\ render_calls = 0
           /\ output_file = NoFile
           /\ has_callback =>
                 /\ LastProgress.fraction = Frac(-1, 1)
                 /\ LastProgress.message = "Translation failed"
           /\ result = Failure

\* C3: translate_pdf ends by returning the output path or "".
C3_NoExceptionEscapes ==
    pc = "done" => result \in {OutputPath, Failure}

Leq(f, g) == f.num * g.den <= g.num * f.den

InUnit(f) == Leq(Frac(0, 1), f) /\ Leq(f, Frac(1, 1))

Negative(f) == ~Leq(Frac(0, 1), f)

NegativeAt == {i \in DOMAIN progress : Negative(progress[i].fraction)}

\* C4: of the fractions passed to the callback, those that are not negative
\* are in [0, 1] and non-decreasing; a negative one is passed only as the last
\* emission of the call; a successful call passes no negative one and ends
\* with 1.0; a failed call passes exactly one.
C4_ProgressFractions ==
    /\ \A i \in DOMAIN progress :
          \/ InUnit(progress[i].fraction)
          \/ i = Len(progress) /\ pc = "done"
    /\ \A i, j \in DOMAIN progress \ NegativeAt :
          i < j => Leq(progress[i].fraction, progress[j].fraction)
    /\ (Succeeded /\ has_callback) =>
          /\ NegativeAt = {}
          /\ LastProgress.fraction = Frac(10, 10)
    /\ (Failed /\ has_callback) => NegativeAt = {Len(progress)}

\* a successful call whose callback was called during the mapping loop with
\* fractions strictly between 0.2 and 0.8
C4_Witness ==
    /\ Succeeded /\ has_callback
    /\ Len(progress) >= 8
    /\ \E i \in DOMAIN progress :
          /\ ~Leq(progress[i].fraction, Frac(2, 10))
          /\ ~Leq(Frac(8, 10), progress[i].fraction)

\* C5: when extraction has returned no page, translate_pdf ends having called
\* neither the translator nor the renderer, with no output file, the callback
\* (if given) having last received -1 with the ExtractionEmpty message, and
\* returns "".
C5_EmptyExtraction ==
    (pc = "done" /\ extract_calls > 0 /\ pages_content = <<>>)
        => /\ calls = <<>>
           /\ render_calls = 0
           /\ output_file = NoFile
           /\ has_callback =>
                 /\ LastProgress.fraction = Frac(-1, 1)
                 /\ LastProgress.message = "Could not extract text from PDF"
           /\ result = Failure

\* the input pages that show a text run which is not only whitespace
PagesWithText ==
    {n \in DOMAIN input_pages :
        \E k \in DOMAIN input_pages[n].runs :
            \E c \in Range(input_pages[n].runs[k].text) : ~IsSpace(c)}

\* C6 (as claimed), for calls in which no page failed during rendering: the
\* output of a successful call has as many pages as the input.
C6_SamePageCount ==
    (Succeeded /\ failed_pages = {})
        => Len(WrittenPages) = Len(input_pages)

\* C6 (as amended): the output of a successful call has at most as many pages
\* as the input, and when no page failed during rendering exactly one page
\* per input page that has an extractable text run.
C6_PageCount ==
    Succeeded
        => /\ Len(WrittenPages) <= Len(input_pages)
           /\ failed_pages = {} =>
                 Len(WrittenPages) = Cardinality(PagesWithText)

\* a successful call on a two-page input one page of which has no extractable
\* run, no page failing during rendering
C6_Witness ==
    /\ Succeeded
    /\ failed_pages = {}
    /\ Len(input_pages) = 2
    /\ Cardinality(PagesWithText) = 1
    /\ Len(WrittenPages) = 1

\* the texts a page of the input shows, trimmed, those of only whitespace left out
ShownTexts(n) ==
    {Strip(input_pages[n].runs[k].text) : k \in DOMAIN input_pages[n].runs}
        \ {<<>>}

Trimmed(t) == t # <<>> /\ ~IsSpace(t[1]) /\ ~IsSpace(t[Len(t)])

\* each returned page has a run, every run's text is non-empty and trimmed,
\* the runs are in descending y then ascending x, and page_number is the
\* position in the input of the page the runs come from
ExtractedPagesWellFormed ==
    /\ \A i \in DOMAIN pages_content :
          LET page == pages_content[i]
              content == page.content
          IN /\ content # <<>>
             /\ \A k \in DOMAIN content : Trimmed(content[k].text)
             /\ \A k \in 1..(Len(content) - 1) :
                   \/ content[k].y > content[k + 1].y
                   \/ /\ content[k].y = content[k + 1].y
                      /\ content[k].x <= content[k + 1].x
             /\ page.page_number \in DOMAIN input_pages
             /\ page.rotation = input_pages[page.page_number].rotation
             /\ {content[k].text : k \in DOMAIN content}
                    = ShownTexts(page.page_number)
    /\ \A i, j \in DOMAIN pages_content :
          i < j => pages_content[i].page_number < pages_content[j].page_number

\* C11: every page sequence extract_text_with_positions returns is well
\* formed (no page without runs, texts non-empty and trimmed, runs in
\* descending y then ascending x, page_number the 1-based input position), and
\* for every PDF with at least one extractable run it is non-empty.
C11_ExtractedPages ==
    /\ ExtractedPagesWellFormed
    /\ (extract_calls > 0 /\ "parse" \notin faults /\ PagesWithText # {})
           => pages_content # <<>>

\* the drawString operations among ops that belong to input page p, in order
DrawsOf(ops, p) ==
    LET OfPage(o) == o.op = "draw" /\ o.page = p
    IN SelectSeq(ops, OfPage)

\* the runs among the first n of the page being rendered that reach
\* drawString and are drawn by it
PlacedRuns(n) ==
    LET Placed(r) == /\ r.text # <<>>
                     /\ Get(translations, r.text, r.text) # <<>>
                     /\ Drawable(Get(translations, r.text, r.text))
    IN SelectSeq(SubSeq(sorted_content, 1, n), Placed)

\* C12: while a page is rendered its runs are taken in descending y, lastY
\* unset at the start of the page; a run is drawn at its stored (x, y) in 1.2
\* times its font size, but at y = lastY - adjustedFontSize - 2mm when lastY is
\* set and |y - lastY| < 2mm; lastY is the y last drawn.  Any two runs drawn
\* consecutively on a page are at least 2mm apart vertically.
C12_Placement ==
    /\ pc = "run" =>
          LET drawn == DrawsOf(pending, page_i)
              runs == PlacedRuns(run_i - 1)
          IN /\ \A k \in 1..(Len(sorted_content) - 1) :
                   sorted_content[k].y >= sorted_content[k + 1].y
             /\ run_i = 1 => last_y = None
             /\ Len(drawn) = Len(runs)
             /\ \A j \in DOMAIN drawn :
                   /\ drawn[j].text = runs[j].text
                   /\ drawn[j].x = runs[j].x
                   /\ 10 * drawn[j].size = 12 * runs[j].fontSize * Pt
                   /\ drawn[j].y =
                        IF j > 1 /\ runs[j].y - drawn[j - 1].y < 2 * Mm
                                 /\ drawn[j - 1].y - runs[j].y < 2 * Mm
                        THEN drawn[j - 1].y - drawn[j].size - 2 * Mm
                        ELSE runs[j].y
             /\ last_y = IF drawn = <<>> THEN None
                         ELSE Some(drawn[Len(drawn)].y)
    /\ \A p \in DOMAIN pages_content :
          LET drawn == DrawsOf(CanvasOps, p)
          IN \A j \in 2..Len(drawn) :
                \/ drawn[j - 1].y - drawn[j].y >= 2 * Mm
                \/ drawn[j].y - drawn[j - 1].y >= 2 * Mm

\* the second run of a page has been moved down, below the run drawn 2 points
\* above its stored y
C12_Witness ==
    /\ pc = "run"
    /\ run_i = 3
    /\ LET drawn == DrawsOf(pending, page_i)
       IN /\ Len(drawn) = 2
          /\ drawn[1].y = sorted_content[1].y
          /\ drawn[1].y - sorted_content[2].y = 2 * Pt
          /\ drawn[2].y = drawn[1].y - drawn[2].size - 2 * Mm
          /\ last_y = Some(drawn[2].y)

\* the page loop of create_pdf_with_layout is past page p
PagePassed(p) ==
    /\ render_calls > 0
    /\ "canvas" \notin faults
    /\ p < page_i

\* the texts of the runs of extracted page p that drawString draws, in the
\* order they are taken
DrawableTexts(p) ==
    LET Placed(r) == /\ Get(translations, r.text, r.text) # <<>>
                     /\ Drawable(Get(translations, r.text, r.text))
        runs == SelectSeq(Sorted(pages_content[p].content, "-y"), Placed)
    IN [k \in DOMAIN runs |-> runs[k].text]

DrawnTexts(ops, p) == [k \in DOMAIN DrawsOf(ops, p) |-> DrawsOf(ops, p)[k].text]

\* C13: a glitch while rendering does not abort the document.  A run whose
\* drawing fails is skipped, lastY as it was, and the other runs of its page are
\* drawn; after a page that failed every later page is rendered; the renderer
\* returns bytes and translate_pdf succeeds, no other call having raised.
C13_GlitchesAbsorbed ==
    /\ \A p \in DOMAIN pages_content :
          (PagePassed(p) /\ p \notin failed_pages)
              => DrawnTexts(CanvasOps, p) = DrawableTexts(p)
    /\ pc = "run" =>
          LET drawn == DrawsOf(pending, page_i)
          IN last_y = IF drawn = <<>> THEN None ELSE Some(drawn[Len(drawn)].y)
    /\ (pc = "rendered" /\ "canvas" \notin faults)
          => page_i = Len(pages_content) + 1
    /\ (pc = "rendered" /\ faults \cap {"canvas", "save"} = {})
          => pdf_content # EmptyBytes
    /\ (pc = "done" /\ render_calls > 0 /\ faults = {})
          => /\ Succeeded
             /\ pdf_content # EmptyBytes
             /\ output_file = pdf_content

\* a call has succeeded although the first page failed and, on the second, the
\* drawing of the upper run failed: the lower run of that page is in the output
C13_Witness ==
    /\ Succeeded
    /\ failed_pages = {1}
    /\ Len(pages_content) = 2
    /\ Len(pages_content[2].content) = 2
    /\ ~Drawable(translations[pages_content[2].content[1].text])
    /\ DrawnTexts(Concat(WrittenPages), 2) = <<pages_content[2].content[2].text>>

\* the input pages whose operations an output page carries
PagesOn(ops) == {ops[k].page : k \in DOMAIN ops}

\* C14: a page whose processing fails after some of its runs were drawn is
\* skipped as a whole: none of its operations, draws or rotation, is on any
\* emitted output page, and every emitted output page carries operations of
\* exactly one input page.
C14_FailedPageSkipped ==
    /\ \A k \in DOMAIN out_pages :
          /\ Cardinality(PagesOn(out_pages[k])) <= 1
          /\ PagesOn(out_pages[k]) \cap failed_pages = {}
    /\ Succeeded =>
          \A k \in DOMAIN WrittenPages :
              /\ Cardinality(PagesOn(WrittenPages[k])) <= 1
              /\ PagesOn(WrittenPages[k]) \cap failed_pages = {}

\* a step in which translator.translate is called
TranslateCalled == calls' # calls

\* the step in which create_pdf_with_layout is entered
RenderingBegins == render_calls' # render_calls

\* C15: extraction, mapping and rendering are strict stages.  translate is
\* called only after extraction has returned and before rendering begins;
\* rendering begins only when every translate call has returned, the map then
\* holding a key for the text of every run of every extracted page; the map
\* does not change while or after rendering.
C15_StrictStages ==
    [][ /\ TranslateCalled =>
              /\ extract_calls > 0
              /\ pages_content # <<>>
              /\ pages_content' = pages_content
              /\ render_calls = 0
              /\ render_calls' = 0
        /\ RenderingBegins =>
              /\ extract_calls > 0
              /\ \A i \in DOMAIN calls : ~calls[i].raised
              /\ RunTexts \subseteq DOMAIN translations
              /\ \A t \in DOMAIN translations :
                    \E i \in DOMAIN calls : calls[i] = Returned(t, translations[t])
        /\ (render_calls > 0 \/ RenderingBegins) =>
              /\ translations' = translations
              /\ pages_content' = pages_content
              /\ extract_calls' = extract_calls ]_vars

\* the second page is being rendered, after one translate call for each of the
\* two texts of the document
C15_Witness ==
    /\ pc = "run"
    /\ page_i = 2
    /\ render_calls = 1
    /\ Len(calls) = 2
    /\ Cardinality(RunTexts) = 2
    /\ DOMAIN translations = RunTexts

\* the handler of translate_pdf has passed its message to the callback
Reported == has_callback /\ pc = "done" /\ Failed

ExtractionWasEmpty == extract_calls > 0 /\ pages_content = <<>>

TranslateRaised == \E i \in DOMAIN calls : calls[i].raised

RendererGaveNoBytes == render_calls > 0 /\ pdf_content = EmptyBytes

\* C16: the message translate_pdf reports is determined by the stage that
\* failed, whatever the text of the exception: the ExtractionEmpty message if
\* and only if extraction returned no page, the translation-failure message if
\* and only if a translate call raised, the create-PDF message if and only if
\* the renderer returned empty bytes.
C16_MessageByStage ==
    Reported =>
        /\ LastProgress.message = "Could not extract text from PDF"
              <=> ExtractionWasEmpty
        /\ LastProgress.message = "Translation failed"
              <=> TranslateRaised
        /\ LastProgress.message = "Could not create translated PDF"
              <=> RendererGaveNoBytes

-----------------------------------------------------------------------------
(* Properties of concurrent sessions *)

\* C10: two concurrent translations of different documents do not interfere:
\* each session's translate_pdf extracts the document that session uploaded,
\* and the bytes a session offers for download are the rendering of its own
\* document.
C10_SessionsIndependent ==
    \A s \in Sessions :
        /\ sess[s].extracted \in {Absent, Upload(s)}
        /\ sess[s].pdf_bytes \in {Absent, Rendering(Upload(s))}
        /\ sess[s].pc = "remove_translated" =>
               files[sess[s].translated_pdf_path] # Absent

=============================================================================
